---- MODULE Spec2Model ----
(***************************************************************************)
(* Paged key-value cache allocator: MaxText/page_managers.py.              *)
(*                                                                         *)
(* Reading of the source.  The arrays of a PageState are treated as        *)
(* mutable, numpy-like arrays, as the item assignments of the source       *)
(* (page_status[page_idx] = 0, seq_lengths[slot] = 0, ...) require:        *)
(*   - x[i] = v and x += v change the array object in place, so the        *)
(*     caller's PageState sees them, also when the call later raises;      *)
(*   - an index past the end of an axis raises IndexError;                 *)
(*   - x = f(...) binds a new array and leaves the caller's array alone;   *)
(*   - jnp.where(cond, size=n) gives the positions of the true entries of  *)
(*     cond, ascending, padded with 0, counted from the start of the       *)
(*     array it is given (page_status[1:] is given, so position 0 is page  *)
(*     1 of the pool, but the source uses the position as the page index); *)
(*   - jax.lax.cond(seq_lengths > 0, 1, 0) is the elementwise choice of 1  *)
(*     or 0, and updating_slots[i] is the i-th selected slot;              *)
(*   - % is the remainder with the sign of the divisor: (-1) % n = n - 1.  *)
(***************************************************************************)
EXTENDS Integers, Sequences, FiniteSets, TLC

\* Bounds of the model: the constructor's arguments.  num_pages is 1 (a pool
\* with no usable page) or MaxNumPages.
MaxNumPages == 2
page_size == 2
slots == 2
TargetPages == 2
PrefillPages == 2

max_target_length == TargetPages * page_size
max_prefill_predict_length == PrefillPages * page_size
max_pages_per_slot == max_target_length \div page_size
max_pages_per_prefill == max_prefill_predict_length \div page_size

SlotIds == 0 .. (slots - 1)
\* The lengths the scheduler passes, all within the preconditions of
\* ReservePrefill: one token, a full page, a page and a token, the longest.
Lengths == {1, page_size, page_size + 1, max_prefill_predict_length}
\* The lengths a caller may pass: the valid ones, 0, and one that needs more
\* than max_pages_per_prefill pages.
RequestLengths == 0 .. (max_prefill_predict_length + 1)

VARIABLES
  num_pages,   \* self.num_pages
  page_state,  \* the scheduler's current PageState
  last         \* the last call made: its arguments and its outcome

vars == <<num_pages, page_state, last>>

\* jnp.zeros for each of the six fields.
ZeroState(n) ==
  [page_status |-> [p \in 0 .. (n - 1) |-> 0],
   seq_page_idx_mappings |-> [s \in SlotIds |-> [i \in 0 .. (max_pages_per_slot - 1) |-> 0]],
   seq_lengths |-> [s \in SlotIds |-> 0],
   seq_num_pages |-> [s \in SlotIds |-> 0],
   seq_page_indices |-> [s \in SlotIds |-> 0],
   seq_page_slice_indices |-> [s \in SlotIds |-> 0]]

\* jnp.ceil(a / b) for b > 0.
Ceil(a, b) == -((-a) \div b)

\* jnp.count_nonzero(page_status[1:])
CountNonzeroTail(status) ==
  Cardinality({p \in DOMAIN status : p >= 1 /\ status[p] # 0})

\* jnp.where((page_status[1:]==0), size=1)[0]: the position, within
\* page_status[1:], of its first zero entry (0 when it has none).
WhereFree(status) ==
  LET tail == {j \in 0 .. (Cardinality(DOMAIN status) - 2) : status[j + 1] = 0}
  IN IF tail = {} THEN 0 ELSE CHOOSE j \in tail : \A k \in tail : j <= k

\* TakePage with the position shifted to a page index only where it is stored.
TakePageShiftedIndex(status) ==
  [page_idx |-> WhereFree(status) + 1,
   page_status |-> [status EXCEPT ![WhereFree(status)] = 1]]

\* Lines 116-117 and 155-156: the page taken and page_status after marking it.
TakePage(status) ==
  [page_idx |-> WhereFree(status),
   page_status |-> [status EXCEPT ![WhereFree(status)] = 1]]

\* The assertion of lines 115 and 153 fails: "All pages are in use."
AllPagesInUse(status) ==
  CountNonzeroTail(status) = Cardinality(DOMAIN status) - 1

\* ReleaseStep without line 82: the row is cleared, the page stays Used.
ReleaseStepKeepsStatus(T, slot, i) ==
  [T EXCEPT !.seq_page_idx_mappings[slot] = [k \in 0 .. (max_pages_per_slot - 1) |-> 0]]

\* One iteration of the loop of release_slot_pages (lines 81-83).
ReleaseStep(T, slot, i) ==
  LET page_idx == T.seq_page_idx_mappings[slot][i]
  IN [T EXCEPT !.page_status[page_idx] = 0,
               !.seq_page_idx_mappings[slot] = [k \in 0 .. (max_pages_per_slot - 1) |-> 0]]

\* The loop of release_slot_pages, from iteration i to range(n)'s end.
RECURSIVE ReleaseLoop(_, _, _, _)
ReleaseLoop(T, slot, i, n) ==
  IF i >= n THEN [table |-> T, outcome |-> "ok"]
  ELSE IF i >= max_pages_per_slot THEN [table |-> T, outcome |-> "IndexError"]
  ELSE ReleaseLoop(ReleaseStep(T, slot, i), slot, i + 1, n)

\* ResetSlot without line 88.
ResetSlotKeepsSlice(T, slot) ==
  [T EXCEPT !.seq_lengths[slot] = 0,
            !.seq_num_pages[slot] = 0,
            !.seq_page_indices[slot] = 0]

\* Lines 85-88.
ResetSlot(T, slot) ==
  [T EXCEPT !.seq_lengths[slot] = 0,
            !.seq_num_pages[slot] = 0,
            !.seq_page_indices[slot] = 0,
            !.seq_page_slice_indices[slot] = 0]

\* release_slot_pages(slot, page_state).  table: the arrays of the caller's
\* PageState after the call; returned: the PageState returned (the same
\* arrays), meaningful when outcome = "ok".
release_slot_pages(slot, T) ==
  LET loop == ReleaseLoop(T, slot, 0, T.seq_num_pages[slot])
  IN IF loop.outcome # "ok"
     THEN [table |-> loop.table, returned |-> loop.table, outcome |-> loop.outcome]
     ELSE [table |-> ResetSlot(loop.table, slot),
           returned |-> ResetSlot(loop.table, slot),
           outcome |-> "ok"]

\* The loop of reserve_prefill_slot_pages (lines 114-118), from iteration i.
\* page_idx is the local variable of that name, bound says whether an
\* iteration has assigned it.
RECURSIVE PrefillLoop(_, _, _, _, _, _)
PrefillLoop(T, slot, i, n, page_idx, bound) ==
  IF i >= n THEN [table |-> T, outcome |-> "ok", page_idx |-> page_idx, bound |-> bound]
  ELSE IF AllPagesInUse(T.page_status)
  THEN [table |-> T, outcome |-> "AssertionError", page_idx |-> page_idx, bound |-> bound]
  ELSE LET take == TakePage(T.page_status)
           marked == [T EXCEPT !.page_status = take.page_status]
       IN IF i >= max_pages_per_slot
          THEN [table |-> marked, outcome |-> "IndexError",
                page_idx |-> take.page_idx, bound |-> TRUE]
          ELSE PrefillLoop(
                 [marked EXCEPT !.seq_page_idx_mappings[slot][i] = take.page_idx],
                 slot, i + 1, n, take.page_idx, TRUE)

\* PrefillSliceIdx without the "- 1".
PrefillSliceIdxNoShift(true_length) == true_length % page_size

\* Line 112.
PrefillSliceIdx(true_length) == (true_length - 1) % page_size

\* reserve_prefill_slot_pages(slot, true_length, page_state).
reserve_prefill_slot_pages(slot, true_length, T) ==
  LET released == release_slot_pages(slot, T)
      prefill_slot_num_pages == Ceil(true_length, page_size)
      loop == PrefillLoop(released.table, slot, 0, prefill_slot_num_pages, 0, FALSE)
      counted == [loop.table EXCEPT !.seq_lengths[slot] = true_length,
                                    !.seq_num_pages[slot] = prefill_slot_num_pages]
      done == [counted EXCEPT !.seq_page_indices[slot] = loop.page_idx,
                              !.seq_page_slice_indices[slot] = PrefillSliceIdx(true_length)]
  IN IF released.outcome # "ok"
     THEN [table |-> released.table, returned |-> released.table, outcome |-> released.outcome]
     ELSE IF loop.outcome # "ok"
     THEN [table |-> loop.table, returned |-> loop.table, outcome |-> loop.outcome]
     ELSE IF ~loop.bound
     THEN [table |-> counted, returned |-> counted, outcome |-> "UnboundLocalError"]
     ELSE [table |-> done, returned |-> done, outcome |-> "ok"]

\* Line 144: seq_lengths += jax.lax.cond(seq_lengths > 0, 1, 0)
IncrementActive(seq_lengths) ==
  [s \in SlotIds |-> IF seq_lengths[s] > 0 THEN seq_lengths[s] + 1 ELSE seq_lengths[s]]

\* Line 146: seq_num_pages = jnp.ceil(seq_lengths / self.page_size)
DecodeNumPages(seq_lengths) == [s \in SlotIds |-> Ceil(seq_lengths[s], page_size)]

\* Line 147: seq_page_slice_indices = (seq_lengths - 1) % self.page_size
DecodeSliceIndices(seq_lengths) == [s \in SlotIds |-> (seq_lengths[s] - 1) % page_size]

\* Line 151: jnp.where((seq_new_page>0), size=self.slots), as a sequence.
UpdatingSlots(seq_new_page) ==
  LET crossing == {s \in SlotIds : seq_new_page[s] > 0}
  IN [i \in 1 .. slots |->
        IF i <= Cardinality(crossing)
        THEN CHOOSE s \in crossing : Cardinality({t \in crossing : t < s}) = i - 1
        ELSE 0]

\* The loop of reserve_decode_step_pages (lines 152-158), from iteration i.
\* T holds the arrays changed in place; seq_num_pages is the new local array.
RECURSIVE DecodeLoop(_, _, _, _, _)
DecodeLoop(T, seq_num_pages, updating_slots, i, n) ==
  IF i >= n THEN [table |-> T, outcome |-> "ok"]
  ELSE IF AllPagesInUse(T.page_status) THEN [table |-> T, outcome |-> "AssertionError"]
  ELSE LET slot == updating_slots[i + 1]
           take == TakePage(T.page_status)
           marked == [T EXCEPT !.page_status = take.page_status]
           at == seq_num_pages[slot] - 1
           pos == IF at < 0 THEN at + max_pages_per_slot ELSE at
       IN IF pos < 0 \/ pos >= max_pages_per_slot
          THEN [table |-> marked, outcome |-> "IndexError"]
          ELSE DecodeLoop(
                 [marked EXCEPT !.seq_page_idx_mappings[slot][pos] = take.page_idx,
                                !.seq_page_indices[slot] = take.page_idx],
                 seq_num_pages, updating_slots, i + 1, n)

\* reserve_decode_step_pages(page_state).
reserve_decode_step_pages(T) ==
  LET seq_lengths == IncrementActive(T.seq_lengths)
      current_seq_num_pages == T.seq_num_pages
      seq_num_pages == DecodeNumPages(seq_lengths)
      seq_page_slice_indices == DecodeSliceIndices(seq_lengths)
      seq_new_page == [s \in SlotIds |-> seq_num_pages[s] - current_seq_num_pages[s]]
      num_new_pages == Cardinality({s \in SlotIds : seq_new_page[s] # 0})
      loop == DecodeLoop([T EXCEPT !.seq_lengths = seq_lengths], seq_num_pages,
                         UpdatingSlots(seq_new_page), 0, num_new_pages)
  IN [table |-> loop.table,
      returned |-> [loop.table EXCEPT !.seq_num_pages = seq_num_pages,
                                      !.seq_page_slice_indices = seq_page_slice_indices],
      outcome |-> loop.outcome]

\* What the scheduler holds after a call: the PageState returned, or, when
\* the call raised, the PageState it passed in.
After(r) == IF r.outcome = "ok" THEN r.returned ELSE r.table

\* The record of a call: its arguments, its outcome, and the number of
\* pages the slot had when the call was made.
Called(op, slot, true_length, r) ==
  [op |-> op, slot |-> slot, true_length |-> true_length, outcome |-> r.outcome,
   had_pages |-> IF op = "ReserveDecodeStep" THEN 0 ELSE page_state.seq_num_pages[slot]]

\* PageManager.__init__ (lines 53-68).
Init ==
  /\ num_pages \in {1, MaxNumPages}
  /\ page_state = ZeroState(num_pages)
  /\ last = [op |-> "init", slot |-> 0, true_length |-> 0, outcome |-> "ok", had_pages |-> 0]

Release(slot) ==
  LET r == release_slot_pages(slot, page_state)
  IN /\ page_state' = After(r)
     /\ last' = Called("Release", slot, 0, r)
     /\ UNCHANGED num_pages

ReservePrefill(slot, true_length) ==
  LET r == reserve_prefill_slot_pages(slot, true_length, page_state)
  IN /\ page_state' = After(r)
     /\ last' = Called("ReservePrefill", slot, true_length, r)
     /\ UNCHANGED num_pages

\* The model stops stepping a batch once a slot is past max_target_length.
ReserveDecodeStep ==
  LET r == reserve_decode_step_pages(page_state)
  IN /\ \A s \in SlotIds : page_state.seq_lengths[s] <= max_target_length
     /\ page_state' = After(r)
     /\ last' = Called("ReserveDecodeStep", 0, 0, r)
     /\ UNCHANGED num_pages

\* The scheduler keeps the preconditions of ReservePrefill.
Next ==
  \/ \E slot \in SlotIds : Release(slot)
  \/ \E slot \in SlotIds, true_length \in Lengths : ReservePrefill(slot, true_length)
  \/ ReserveDecodeStep

Spec == Init /\ [][Next]_vars

\* The scheduler may also pass a length that breaks the preconditions.
NextAnyRequest ==
  \/ \E slot \in SlotIds : Release(slot)
  \/ \E slot \in SlotIds, true_length \in RequestLengths : ReservePrefill(slot, true_length)
  \/ ReserveDecodeStep

SpecAnyRequest == Init /\ [][NextAnyRequest]_vars

(***************************************************************************)
(* Vocabulary of the properties.                                           *)
(***************************************************************************)
Free == 0
Used == 1
Pages == 0 .. (num_pages - 1)
Row == 0 .. (max_pages_per_slot - 1)

\* The pages slot s owns in table T: its mapping up to seq_num_pages[s].
OwnedPages(T, s) ==
  {T.seq_page_idx_mappings[s][i] : i \in {k \in Row : k < T.seq_num_pages[s]}}

\* The pages of table T that are Used.
UsedPages(T) == {p \in DOMAIN T.page_status : T.page_status[p] = Used}

\* C1: no page other than the sentinel 0 is in the mappings of two
\* different slots at the same time.
NoAliasing ==
  \A s \in SlotIds, t \in SlotIds, i \in Row, j \in Row :
    (s # t /\ page_state.seq_page_idx_mappings[s][i] = page_state.seq_page_idx_mappings[t][j])
      => page_state.seq_page_idx_mappings[s][i] = 0

\* C1: two slots hold pages at once, one of them two pages.
TwoSlotsHoldPages ==
  \E s \in SlotIds, t \in SlotIds :
    /\ s # t
    /\ page_state.seq_num_pages[s] >= 2
    /\ page_state.seq_num_pages[t] >= 1

\* C2: the sentinel is never allocated: page_status[0] is Free, no slot
\* owns index 0, and at most num_pages - 1 pages are Used.
SentinelNeverAllocated ==
  /\ page_state.page_status[0] = Free
  /\ \A s \in SlotIds : 0 \notin OwnedPages(page_state, s)
  /\ Cardinality(UsedPages(page_state)) <= num_pages - 1

\* C3: a page is Used if and only if some slot owns it.
StatusMatchesOwnership ==
  \A p \in Pages :
    page_state.page_status[p] = Used <=> \E s \in SlotIds : p \in OwnedPages(page_state, s)

\* C4: seq_num_pages[slot] = ceil(seq_lengths[slot] / page_size) for every slot.
NumPagesIsCeilOfLength ==
  \A s \in SlotIds :
    page_state.seq_num_pages[s] = Ceil(page_state.seq_lengths[s], page_size)

\* The last call was a successful ReservePrefill.
PrefillSucceeded(call) == call.op = "ReservePrefill" /\ call.outcome = "ok"

\* C5: after Release(s, T) every page that was in s's mapping in T is
\* Free, every entry of s's mapping is the sentinel, and seq_lengths[s],
\* seq_num_pages[s], seq_page_indices[s] and seq_page_slice_indices[s] are 0.
ReleasePostcondition ==
  [][last'.op = "Release" =>
       LET s == last'.slot
       IN /\ \A p \in OwnedPages(page_state, s) : page_state'.page_status[p] = Free
          /\ \A i \in Row : page_state'.seq_page_idx_mappings[s][i] = 0
          /\ page_state'.seq_lengths[s] = 0
          /\ page_state'.seq_num_pages[s] = 0
          /\ page_state'.seq_page_indices[s] = 0
          /\ page_state'.seq_page_slice_indices[s] = 0]_vars

\* C5: a slot that held two or more pages has just been released.
ReleasedTwoPages ==
  last.op = "Release" /\ last.outcome = "ok" /\ last.had_pages >= 2

\* C6: Release(s, ReservePrefill(s, L, T)) leaves every page that was Free
\* in T Free again.
PrefillReleaseRoundTrip ==
  [][PrefillSucceeded(last') =>
       LET back == release_slot_pages(last'.slot, page_state').returned
       IN \A p \in Pages : page_state.page_status[p] = Free => back.page_status[p] = Free]_vars

\* C6: a prefill of two or more pages has been made, on a table where
\* another slot holds pages.
PrefilledTwoPagesBesideAnother ==
  /\ PrefillSucceeded(last)
  /\ page_state.seq_num_pages[last.slot] >= 2
  /\ \E t \in SlotIds : t # last.slot /\ page_state.seq_num_pages[t] >= 1

\* C7: Release(s, Release(s, T)) = Release(s, T) in every field, and
\* Release of a slot that is already empty returns a table equal to its
\* input.
ReleaseIdempotent ==
  [][last'.op = "Release" =>
       /\ release_slot_pages(last'.slot, page_state').returned = page_state'
       /\ (page_state.seq_lengths[last'.slot] = 0 => page_state' = page_state)]_vars

\* The pages a prefill of slot s may take from table T: those of index >= 1
\* that are Free or owned by s itself.
AvailableTo(T, s) ==
  {p \in DOMAIN T.page_status : p >= 1 /\ (T.page_status[p] = Free \/ p \in OwnedPages(T, s))}

\* The k-th lowest (k = 0, 1, ...) element of a set of pages.
KthLowest(S, k) == CHOOSE p \in S : Cardinality({q \in S : q < p}) = k

\* C8: a successful ReservePrefill needing k pages stores the k lowest
\* available pages of index >= 1, ascending, in seq_page_idx_mappings[slot]
\* [0..k) and marks exactly those pages Used.
PrefillTakesLowestFreePages ==
  [][PrefillSucceeded(last') =>
       LET s == last'.slot
           k == Ceil(last'.true_length, page_size)
           avail == AvailableTo(page_state, s)
           kept == UsedPages(page_state) \ OwnedPages(page_state, s)
       IN k <= Cardinality(avail) =>
            /\ \A i \in 0 .. (k - 1) :
                 page_state'.seq_page_idx_mappings[s][i] = KthLowest(avail, i)
            /\ UsedPages(page_state') = kept \cup {KthLowest(avail, i) : i \in 0 .. (k - 1)}]_vars

\* C9: after a successful ReservePrefill(slot, L, T) with L > 0,
\* seq_lengths[slot] = L, seq_num_pages[slot] = ceil(L / page_size),
\* seq_page_slice_indices[slot] = (L - 1) mod page_size and
\* seq_page_indices[slot] is the last page of the slot's mapping.
PrefillBookkeeping ==
  (PrefillSucceeded(last) /\ last.true_length > 0) =>
    LET s == last.slot
        L == last.true_length
    IN /\ page_state.seq_lengths[s] = L
       /\ page_state.seq_num_pages[s] = Ceil(L, page_size)
       /\ page_state.seq_page_slice_indices[s] = (L - 1) % page_size
       /\ page_state.seq_page_indices[s] =
            page_state.seq_page_idx_mappings[s][page_state.seq_num_pages[s] - 1]

\* C9: a prefill has been made on a slot that was occupied, ending in the
\* middle of its second page.
PrefilledOccupiedSlot ==
  /\ PrefillSucceeded(last)
  /\ last.had_pages >= 1
  /\ last.true_length = page_size + 1

\* C10: a ReservePrefill that needs more pages than are available to it
\* fails with the pool-exhaustion error and leaves the table unchanged.
PrefillExhaustionLeavesTable ==
  [][(/\ last'.op = "ReservePrefill"
      /\ Ceil(last'.true_length, page_size) >
           Cardinality(AvailableTo(page_state, last'.slot)))
       => (last'.outcome = "AssertionError" /\ page_state' = page_state)]_vars

\* The last call was a ReserveDecodeStep that returned.
DecodeSucceeded(call) == call.op = "ReserveDecodeStep" /\ call.outcome = "ok"

\* The slots of table T that a decode step takes over a page boundary.
Crossing(T) ==
  {s \in SlotIds : /\ T.seq_lengths[s] > 0
                   /\ Ceil(T.seq_lengths[s] + 1, page_size) > T.seq_num_pages[s]}

\* The pages of table T that may be allocated: Free, of index >= 1.
FreePool(T) == {p \in DOMAIN T.page_status : p >= 1 /\ T.page_status[p] = Free}

\* C11: in a successful ReserveDecodeStep each slot that crosses a page
\* boundary gets exactly one page that was Free, recorded at
\* seq_page_idx_mappings[slot][new_num_pages - 1] and in seq_page_indices[slot]
\* and marked Used; a slot that does not cross keeps its mapping and its
\* seq_page_indices; the number of Used pages grows by the number of
\* crossing slots.
DecodeAllocatesOnCrossingOnly ==
  [][DecodeSucceeded(last') =>
       /\ \A s \in Crossing(page_state) :
            LET p == page_state'.seq_page_idx_mappings[s][Ceil(page_state.seq_lengths[s] + 1, page_size) - 1]
            IN /\ page_state.page_status[p] = Free
               /\ page_state'.page_status[p] = Used
               /\ page_state'.seq_page_indices[s] = p
       /\ \A s \in SlotIds \ Crossing(page_state) :
            /\ page_state'.seq_page_idx_mappings[s] = page_state.seq_page_idx_mappings[s]
            /\ page_state'.seq_page_indices[s] = page_state.seq_page_indices[s]
       /\ Cardinality(UsedPages(page_state')) =
            Cardinality(UsedPages(page_state)) + Cardinality(Crossing(page_state))]_vars

\* C12: a successful ReserveDecodeStep adds 1 to seq_lengths[slot] and sets
\* seq_page_slice_indices[slot] = (new length - 1) mod page_size for every
\* active slot, and leaves every field of every empty slot unchanged.
DecodeAdvancesActiveSkipsEmpty ==
  [][DecodeSucceeded(last') =>
       \A s \in SlotIds :
         IF page_state.seq_lengths[s] > 0
         THEN /\ page_state'.seq_lengths[s] = page_state.seq_lengths[s] + 1
              /\ page_state'.seq_page_slice_indices[s] = page_state.seq_lengths[s] % page_size
         ELSE /\ page_state'.seq_lengths[s] = page_state.seq_lengths[s]
              /\ page_state'.seq_num_pages[s] = page_state.seq_num_pages[s]
              /\ page_state'.seq_page_indices[s] = page_state.seq_page_indices[s]
              /\ page_state'.seq_page_slice_indices[s] = page_state.seq_page_slice_indices[s]
              /\ page_state'.seq_page_idx_mappings[s] = page_state.seq_page_idx_mappings[s]]_vars

\* C13: when two or more slots cross a page boundary in one
\* ReserveDecodeStep, they get distinct pages, the j-th crossing slot (by
\* ascending slot index) the j-th lowest Free page of index >= 1.
DecodeServesSlotsInOrder ==
  [][(DecodeSucceeded(last') /\ Cardinality(Crossing(page_state)) >= 2) =>
       /\ \A s \in Crossing(page_state), t \in Crossing(page_state) :
            s # t => page_state'.seq_page_indices[s] # page_state'.seq_page_indices[t]
       /\ \A s \in Crossing(page_state) :
            LET j == Cardinality({t \in Crossing(page_state) : t < s})
            IN j < Cardinality(FreePool(page_state)) =>
                 page_state'.seq_page_indices[s] = KthLowest(FreePool(page_state), j)]_vars

\* C14: a ReserveDecodeStep in which more slots cross a page boundary than
\* there are Free pages fails with the pool-exhaustion error and commits
\* nothing.
DecodeExhaustionCommitsNothing ==
  [][(/\ last'.op = "ReserveDecodeStep"
      /\ Cardinality(Crossing(page_state)) > Cardinality(FreePool(page_state)))
       => (last'.outcome = "AssertionError" /\ page_state' = page_state)]_vars

\* C15: ReservePrefill(slot, L, T) with L <= 0 or with more than
\* max_pages_per_prefill pages needed is rejected with an error (whatever
\* its kind) and leaves the table unchanged.
InvalidPrefillRejected ==
  [][(/\ last'.op = "ReservePrefill"
      /\ \/ last'.true_length <= 0
         \/ Ceil(last'.true_length, page_size) > max_pages_per_prefill)
       => (last'.outcome # "ok" /\ page_state' = page_state)]_vars

\* C16: after every call, successful or not, the table the caller passed
\* in still reads as it did before the call.
ArgumentLeftUnchanged ==
  [][/\ last'.op = "Release" =>
          release_slot_pages(last'.slot, page_state).table = page_state
     /\ last'.op = "ReservePrefill" =>
          reserve_prefill_slot_pages(last'.slot, last'.true_length, page_state).table = page_state
     /\ last'.op = "ReserveDecodeStep" =>
          reserve_decode_step_pages(page_state).table = page_state]_vars

\* C17: for every slot, the entries of its mapping below seq_num_pages[slot]
\* are pairwise distinct pages other than the sentinel, and every entry from
\* seq_num_pages[slot] on is the sentinel 0.
MappingLayout ==
  \A s \in SlotIds :
    /\ \A i \in Row : i < page_state.seq_num_pages[s] =>
         /\ page_state.seq_page_idx_mappings[s][i] # 0
         /\ \A j \in Row : (j < i) =>
              page_state.seq_page_idx_mappings[s][j] # page_state.seq_page_idx_mappings[s][i]
    /\ \A i \in Row : i >= page_state.seq_num_pages[s] =>
         page_state.seq_page_idx_mappings[s][i] = 0

\* C20: seq_num_pages[slot] <= max_pages_per_slot and
\* seq_lengths[slot] <= max_target_length for every slot.
SlotCapacityBound ==
  \A s \in SlotIds :
    /\ page_state.seq_num_pages[s] <= max_pages_per_slot
    /\ page_state.seq_lengths[s] <= max_target_length

(***************************************************************************)
(* Construction.  PageManager.__init__ is modelled with its five arguments *)
(* as inputs; the definitions above fix one configuration it accepted.     *)
(***************************************************************************)

MaxPageSize == 3
MaxConfigLength == 6

PageSizes == 1 .. MaxPageSize
ConfigLengths == 0 .. MaxConfigLength

\* The PageState built by lines 53-60 for the given dimensions.
ZeroTable(n, nslots, per_slot) ==
  [page_status |-> [p \in 0 .. (n - 1) |-> 0],
   seq_page_idx_mappings |-> [s \in 0 .. (nslots - 1) |-> [i \in 0 .. (per_slot - 1) |-> 0]],
   seq_lengths |-> [s \in 0 .. (nslots - 1) |-> 0],
   seq_num_pages |-> [s \in 0 .. (nslots - 1) |-> 0],
   seq_page_indices |-> [s \in 0 .. (nslots - 1) |-> 0],
   seq_page_slice_indices |-> [s \in 0 .. (nslots - 1) |-> 0]]

\* What a call of the constructor leaves: its arguments, its outcome and,
\* when it returned, the two derived fields of self.
Constructed(n, psize, nslots, target, prefill, outcome, per_slot, per_prefill) ==
  [op |-> "Construct", outcome |-> outcome,
   num_pages |-> n, page_size |-> psize, slots |-> nslots,
   max_target_length |-> target, max_prefill_predict_length |-> prefill,
   max_pages_per_slot |-> per_slot, max_pages_per_prefill |-> per_prefill]

\* PageManager without the assertion of line 50.
PageManagerNoPrefillAssert(n, psize, nslots, target, prefill) ==
  IF target % psize # 0
    THEN [outcome |-> "AssertionError"]
    ELSE [outcome |-> "ok",
          max_pages_per_slot |-> target \div psize,
          max_pages_per_prefill |-> prefill \div psize,
          page_state |-> ZeroTable(n, nslots, target \div psize)]

\* PageManager.__init__, lines 41-68.
PageManager(n, psize, nslots, target, prefill) ==
  IF target % psize # 0
    THEN [outcome |-> "AssertionError"]
  ELSE IF prefill % psize # 0
    THEN [outcome |-> "AssertionError"]
    ELSE [outcome |-> "ok",
          max_pages_per_slot |-> target \div psize,
          max_pages_per_prefill |-> prefill \div psize,
          page_state |-> ZeroTable(n, nslots, target \div psize)]

\* No manager exists yet: the table variable holds a table of no page and no slot.
InitConstruction ==
  /\ num_pages = 0
  /\ page_state = ZeroTable(0, 0, 0)
  /\ last = [Constructed(0, 0, 0, 0, 0, "none", 0, 0) EXCEPT !.op = "init"]

\* The one call of the constructor that makes the object; a failed call
\* creates no object.
Construct(n, psize, nslots, target, prefill) ==
  LET m == PageManager(n, psize, nslots, target, prefill)
  IN /\ last.op = "init"
     /\ IF m.outcome = "ok"
          THEN /\ num_pages' = n
               /\ page_state' = m.page_state
               /\ last' = Constructed(n, psize, nslots, target, prefill, "ok",
                                      m.max_pages_per_slot, m.max_pages_per_prefill)
          ELSE /\ last' = Constructed(n, psize, nslots, target, prefill, m.outcome, 0, 0)
               /\ UNCHANGED <<num_pages, page_state>>

NextConstruction ==
  \E n \in 1 .. MaxNumPages, psize \in PageSizes, nslots \in 1 .. slots,
     target \in ConfigLengths, prefill \in ConfigLengths :
    Construct(n, psize, nslots, target, prefill)

SpecConstruction == InitConstruction /\ [][NextConstruction]_vars

\* k is an exact multiple of d.
MultipleOf(k, d) == \E q \in 0 .. k : q * d = k

\* Every entry of every field is 0 and the fields have the configured sizes.
ZeroedTable(T, n, nslots, per_slot) ==
  /\ DOMAIN T.page_status = 0 .. (n - 1)
  /\ \A p \in DOMAIN T.page_status : T.page_status[p] = Free
  /\ DOMAIN T.seq_lengths = 0 .. (nslots - 1)
  /\ DOMAIN T.seq_num_pages = 0 .. (nslots - 1)
  /\ DOMAIN T.seq_page_indices = 0 .. (nslots - 1)
  /\ DOMAIN T.seq_page_slice_indices = 0 .. (nslots - 1)
  /\ DOMAIN T.seq_page_idx_mappings = 0 .. (nslots - 1)
  /\ \A s \in 0 .. (nslots - 1) :
       /\ T.seq_lengths[s] = 0
       /\ T.seq_num_pages[s] = 0
       /\ T.seq_page_indices[s] = 0
       /\ T.seq_page_slice_indices[s] = 0
       /\ DOMAIN T.seq_page_idx_mappings[s] = 0 .. (per_slot - 1)
       /\ \A i \in DOMAIN T.seq_page_idx_mappings[s] : T.seq_page_idx_mappings[s][i] = 0

\* C19: constructing the allocator fails whenever max_target_length or
\* max_prefill_predict_length is not an exact multiple of page_size, and
\* creates no table then; otherwise it succeeds with
\* max_pages_per_slot * page_size = max_target_length,
\* max_pages_per_prefill * page_size = max_prefill_predict_length and a
\* zeroed table of the configured sizes.
ConstructionValidated ==
  [][last'.op = "Construct" =>
       IF /\ MultipleOf(last'.max_target_length, last'.page_size)
          /\ MultipleOf(last'.max_prefill_predict_length, last'.page_size)
         THEN /\ last'.outcome = "ok"
              /\ last'.max_pages_per_slot * last'.page_size = last'.max_target_length
              /\ last'.max_pages_per_prefill * last'.page_size
                   = last'.max_prefill_predict_length
              /\ num_pages' = last'.num_pages
              /\ ZeroedTable(page_state', last'.num_pages, last'.slots,
                             last'.max_pages_per_slot)
         ELSE /\ last'.outcome # "ok"
              /\ page_state' = page_state
              /\ num_pages' = num_pages]_vars

\* A construction refused for its prefill length alone: no table was created.
ConstructionRefusedForPrefillLength ==
  /\ last.op = "Construct"
  /\ last.outcome = "AssertionError"
  /\ last.page_size > 1
  /\ last.max_target_length > 0
  /\ MultipleOf(last.max_target_length, last.page_size)
  /\ ~MultipleOf(last.max_prefill_predict_length, last.page_size)
  /\ num_pages = 0

\* C21: Release(s, T) and a successful ReservePrefill(s, L, T) leave, for
\* every other slot t, t's mapping row, seq_lengths[t], seq_num_pages[t],
\* seq_page_indices[t] and seq_page_slice_indices[t] unchanged and every
\* Used page owned by t Used; Release changes the status of no page that
\* is outside s's mapping.
PerSlotFrame ==
  [][(last'.op = "Release" \/ PrefillSucceeded(last')) =>
       LET s == last'.slot
       IN /\ \A t \in SlotIds \ {s} :
               /\ page_state'.seq_page_idx_mappings[t] = page_state.seq_page_idx_mappings[t]
               /\ page_state'.seq_lengths[t] = page_state.seq_lengths[t]
               /\ page_state'.seq_num_pages[t] = page_state.seq_num_pages[t]
               /\ page_state'.seq_page_indices[t] = page_state.seq_page_indices[t]
               /\ page_state'.seq_page_slice_indices[t] = page_state.seq_page_slice_indices[t]
               /\ \A p \in OwnedPages(page_state, t) :
                    page_state.page_status[p] = Used => page_state'.page_status[p] = Used
          /\ last'.op = "Release" =>
               \A p \in Pages \ OwnedPages(page_state, s) :
                 page_state'.page_status[p] = page_state.page_status[p]]_vars

====
